---- MODULE Spec2Model ----
(***************************************************************************)
(* A model of app.py, the CSV -> TXT/MEA converter for semiconductor test  *)
(* data: the filename parameter parser, the per-file parameter resolution   *)
(* of main(), the line loop of convert_csv_to_txt, and the batch loop of    *)
(* main() that reads, converts and stores every uploaded file.              *)
(*                                                                          *)
(* Text is modelled as a sequence of one-character strings, so that         *)
(* trimming, splitting, padding and pattern matching are computed           *)
(* character by character, as the Python code computes them.                *)
(*                                                                          *)
(* A file's bytes are modelled by the lines that decoding them and          *)
(* splitlines() give; detect_encoding and decode are not modelled.          *)
(***************************************************************************)
EXTENDS Integers, Sequences, FiniteSets, TLC

VARIABLES
    \* convert_csv_to_txt
    pc,             \* position in the function / in main()
    lines,          \* text_content.splitlines()
    vbs, w, l,      \* the arguments of convert_csv_to_txt
    now,            \* datetime.now()
    output_lines,
    curve_index,
    pos,            \* index (1-based) of the next element of `lines`
    result,         \* the returned text
    \* main()
    uploaded_files,
    force_manual,
    l_manual, vbs_manual, w_manual,
    l_parsed, vbs_parsed, parse_success,
    file_params,
    converted_files_txt,
    converted_files_mea,
    errors,
    k               \* index (1-based) of the next element of the list main() walks

convVars == <<pc, lines, vbs, w, l, now, output_lines, curve_index, pos, result>>
mainVars == <<uploaded_files, force_manual, l_manual, vbs_manual, w_manual,
              l_parsed, vbs_parsed, parse_success, file_params,
              converted_files_txt, converted_files_mea, errors, k>>
vars == <<pc, lines, vbs, w, l, now, output_lines, curve_index, pos, result,
          uploaded_files, force_manual, l_manual, vbs_manual, w_manual,
          l_parsed, vbs_parsed, parse_success, file_params,
          converted_files_txt, converted_files_mea, errors, k>>

\* Python's None
None == "None"

(***************************************************************************)
(* Bounds of the model                                                      *)
(***************************************************************************)
MaxLines == 7       \* lines of one file in SpecConvert
MaxPieces == 3      \* pieces the probed line of SpecLine is made of
MaxAround == 1      \* boundary lines around the probed line in SpecLine
MaxSegs == 4        \* segments before ".csv" in a filename of SpecParams
MaxFiles == 3       \* uploads of one batch in SpecBatch

(***************************************************************************)
(* str methods                                                              *)
(***************************************************************************)
\* the whitespace characters of the model's alphabet
Whitespace == {" "}

RECURSIVE LStripSet(_, _)
LStripSet(s, set) ==
    IF s # <<>> /\ Head(s) \in set THEN LStripSet(Tail(s), set) ELSE s

RECURSIVE RStripSet(_, _)
RStripSet(s, set) ==
    IF s # <<>> /\ s[Len(s)] \in set
    THEN RStripSet(SubSeq(s, 1, Len(s) - 1), set)
    ELSE s

\* s.strip()
Strip(s) == RStripSet(LStripSet(s, Whitespace), Whitespace)

\* s.strip(ch)
StripChar(s, ch) == RStripSet(LStripSet(s, {ch}), {ch})

LowerChar(c) ==
    CASE c = "X" -> "x"
      [] c = "Y" -> "y"
      [] c = "L" -> "l"
      [] c = "V" -> "v"
      [] c = "B" -> "b"
      [] c = "S" -> "s"
      [] c = "C" -> "c"
      [] OTHER -> c

\* s.lower()
Lower(s) == [j \in 1..Len(s) |-> LowerChar(s[j])]

\* s.replace(' ', '')
RemoveSpaces(s) == SelectSeq(s, LAMBDA c : c # " ")

\* s.split(sep), sep one character
RECURSIVE SplitFrom(_, _, _, _)
SplitFrom(s, j, sep, cur) ==
    IF j > Len(s) THEN <<cur>>
    ELSE IF s[j] = sep THEN <<cur>> \o SplitFrom(s, j + 1, sep, <<>>)
    ELSE SplitFrom(s, j + 1, sep, Append(cur, s[j]))

Split(s, sep) == SplitFrom(s, 1, sep, <<>>)

\* the width of the first column, f"{val_x:<20}"
FieldWidth == 20

\* f"{s:<n}"
Ljust(s, n) ==
    IF Len(s) >= n THEN s ELSE s \o [j \in 1..(n - Len(s)) |-> " "]

\* "\n".join(seq)
RECURSIVE Join(_)
Join(seq) ==
    IF seq = <<>> THEN <<>>
    ELSE IF Len(seq) = 1 THEN seq[1]
    ELSE seq[1] \o <<"\n">> \o Join(Tail(seq))

\* str(n) for n >= 0
Digit(d) == CASE d = 0 -> "0" [] d = 1 -> "1" [] d = 2 -> "2" [] d = 3 -> "3"
              [] d = 4 -> "4" [] d = 5 -> "5" [] d = 6 -> "6" [] d = 7 -> "7"
              [] d = 8 -> "8" [] d = 9 -> "9"

RECURSIVE IntToStr(_)
IntToStr(n) ==
    IF n < 10 THEN <<Digit(n)>> ELSE Append(IntToStr(n \div 10), Digit(n % 10))

\* s[-n:]
LastChars(s, n) == IF Len(s) <= n THEN s ELSE SubSeq(s, Len(s) - n + 1, Len(s))

(***************************************************************************)
(* csv.reader([line]) under the default dialect (delimiter ',',             *)
(* quotechar '"', doublequote, not strict, no escapechar): the state        *)
(* machine of the reader, run over one line that holds no line break.       *)
(* The row returned when the iterator is exhausted.  The reader raises on   *)
(* none of these lines, so the `except` branches of convert_csv_to_txt      *)
(* (after the marker test, and the split in the data branch) are never      *)
(* entered.                                                                 *)
(***************************************************************************)
RECURSIVE CsvParse(_, _, _, _, _)
CsvParse(s, j, state, row, field) ==
    IF j > Len(s)
    THEN \* end of the line, then the end of the input
         IF state = "START_RECORD" THEN row ELSE Append(row, field)
    ELSE LET c == s[j] IN
         CASE state = "START_RECORD" ->
                CsvParse(s, j, "START_FIELD", row, field)
           [] state = "START_FIELD" ->
                IF c = "\"" THEN CsvParse(s, j + 1, "IN_QUOTED_FIELD", row, <<>>)
                ELSE IF c = "," THEN CsvParse(s, j + 1, "START_FIELD", Append(row, <<>>), <<>>)
                ELSE CsvParse(s, j + 1, "IN_FIELD", row, <<c>>)
           [] state = "IN_FIELD" ->
                IF c = "," THEN CsvParse(s, j + 1, "START_FIELD", Append(row, field), <<>>)
                ELSE CsvParse(s, j + 1, "IN_FIELD", row, Append(field, c))
           [] state = "IN_QUOTED_FIELD" ->
                IF c = "\"" THEN CsvParse(s, j + 1, "QUOTE_IN_QUOTED_FIELD", row, field)
                ELSE CsvParse(s, j + 1, "IN_QUOTED_FIELD", row, Append(field, c))
           [] state = "QUOTE_IN_QUOTED_FIELD" ->
                IF c = "\"" THEN CsvParse(s, j + 1, "IN_QUOTED_FIELD", row, Append(field, c))
                ELSE IF c = "," THEN CsvParse(s, j + 1, "START_FIELD", Append(row, field), <<>>)
                ELSE CsvParse(s, j + 1, "IN_FIELD", row, Append(field, c))

CsvReader(line) == CsvParse(line, 1, "START_RECORD", <<>>, <<>>)

(***************************************************************************)
(* convert_csv_to_txt                                                       *)
(***************************************************************************)
\* date_str: month/day/two-digit year, no leading zeros on month and day
date_str(d) ==
    IntToStr(d.month) \o <<"/">> \o IntToStr(d.day) \o <<"/">>
        \o LastChars(IntToStr(d.year), 2)

condition_line(d) ==
    <<"c","o","n","d","i","t","i","o","n","{","d","a","t","e","=">>
    \o date_str(d)
    \o <<",","i","n","s","t","r","u","m","e","n","t","=","p","s","e","u","d","o",
         ".","m","e","t","e","r",",","m","o","d","e","=","f","o","r","w","a","r",
         "d",",","t","y","p","e","=","n","m","o","s","}">>

page_line(v, ww, ll) ==
    <<"P","a","g","e"," ","(","n","a","m","e","=","I","d","s","_","V","d","s",
      "_","V","g","s",",","x","=","V","d","s",",","p","=","V","g","s",",","y",
      "=","I","d","s",")","{","V","b","s","=">>
    \o v \o <<",","W","=">> \o ww \o <<",","L","=">> \o ll
    \o <<",","T","=","2","5","}">>

\* a variant of header_lines that leaves the empty line out
header_lines_no_blank(d, v, ww, ll) == <<condition_line(d), page_line(v, ww, ll)>>

\* the three lines appended before the loop
header_lines(d, v, ww, ll) == <<condition_line(d), <<>>, page_line(v, ww, ll)>>

curve_values ==
    << <<"1",".","8">>, <<"1",".","3","5">>, <<"0",".","9">>,
       <<"0",".","4","5">>, <<"0">> >>

\* curve_values[curve_index % len(curve_values)], Python's index from 0
curve_value(idx) == curve_values[(idx % Len(curve_values)) + 1]

\* f"curve {{ {curve_value} }}"
curve_line(value) == <<"c","u","r","v","e"," ","{"," ">> \o value \o <<" ","}">>

\* row[n].strip().strip('"').strip("'").lower()
col(field) == Lower(StripChar(StripChar(Strip(field), "\""), "'"))

\* a variant of csv_marker that takes rows of exactly two fields only
csv_marker_two_fields(line) ==
    LET row == CsvReader(line) IN
    /\ Len(row) = 2
    /\ col(row[1]) = <<"x">>
    /\ col(row[2]) = <<"y">>

\* the first test of a line: the csv row has two fields or more, x and y
csv_marker(line) ==
    LET row == CsvReader(line) IN
    /\ Len(row) >= 2
    /\ col(row[1]) = <<"x">>
    /\ col(row[2]) = <<"y">>

normalized_line(line) == Lower(RemoveSpaces(line))

\* the second test, made whenever the first did not `continue`
text_marker(line) ==
    normalized_line(line) \in
        { <<"\"","x","\"",",","\"","y","\"">>,
          <<"x",",","y">>,
          <<"'","x","'",",","'","y","'">> }

\* a boundary marker: the first test, and the second when the first fails
is_marker(line) == IF csv_marker(line) THEN TRUE ELSE text_marker(line)

\* f"{val_x:<20}{val_y}"
formatted_line(val_x, val_y) == Ljust(val_x, FieldWidth) \o val_y

\* a variant of data_lines that writes a row of one field with an empty y
data_lines_one_field(line) ==
    LET row == CsvReader(line) IN
    IF Len(row) >= 2
    THEN <<formatted_line(Strip(row[1]), Strip(row[2]))>>
    ELSE IF Len(row) = 1
    THEN <<formatted_line(Strip(row[1]), <<>>)>>
    ELSE <<>>

\* the data branch: the lines (none or one) a data row appends
data_lines(line) ==
    LET row == CsvReader(line) IN
    IF Len(row) >= 2
    THEN <<formatted_line(Strip(row[1]), Strip(row[2]))>>
    ELSE IF Len(row) = 1
    THEN LET parts == Split(line, ",") IN
         IF Len(parts) >= 2
         THEN <<formatted_line(Strip(parts[1]), Strip(parts[2]))>>
         ELSE <<>>
    ELSE <<>>

\* what one turn of the loop appends for the raw line
line_output(raw, idx) ==
    LET line == Strip(raw) IN
    IF line = <<>> THEN <<>>
    ELSE IF is_marker(line) THEN <<curve_line(curve_value(idx))>>
    ELSE data_lines(line)

\* a variant of line_index that counts every line that is not blank
line_index_every_line(raw, idx) ==
    IF Strip(raw) # <<>> THEN idx + 1 ELSE idx

\* curve_index after one turn of the loop
line_index(raw, idx) ==
    LET line == Strip(raw) IN
    IF line # <<>> /\ is_marker(line) THEN idx + 1 ELSE idx

\* the whole loop, from the state [out, idx], over lns[j..]
RECURSIVE loop_from(_, _, _, _)
loop_from(lns, j, out, idx) ==
    IF j > Len(lns) THEN out
    ELSE loop_from(lns, j + 1, out \o line_output(lns[j], idx),
                   line_index(lns[j], idx))

\* the function as a whole, on the decoded and split text
convert_csv_to_txt(lns, d, v, ww, ll) ==
    Join(loop_from(lns, 1, header_lines(d, v, ww, ll), 0))

(***************************************************************************)
(* parse_parameters_from_filename                                           *)
(***************************************************************************)
Digits == {"0", "1", "2", "3", "4", "5", "6", "7", "8", "9"}

\* the character class [\d.]
NumChars == Digits \cup {"."}

\* the index after the longest run of characters of `set` that starts at j
RECURSIVE RunEnd(_, _, _)
RunEnd(s, j, set) ==
    IF j <= Len(s) /\ s[j] \in set THEN RunEnd(s, j + 1, set) ELSE j

\* l_pattern = r'([\d.]+)\s*[Ll]' matched at index j.  Each repetition is
\* greedy, and giving a character back never helps: the character given back
\* is of the repetition's own class, which the next element does not accept.
l_match_at(s, j) ==
    /\ j <= Len(s)
    /\ s[j] \in NumChars
    /\ LET e == RunEnd(s, j, NumChars)
           f == RunEnd(s, e, Whitespace)
       IN  f <= Len(s) /\ s[f] \in {"l", "L"}

\* where group 1 of vbs_pattern = r'vbs[_\s]*(-?[\d.]+)' starts for a match
\* at index j, or 0 when there is no match at j
vbs_group_start(s, j) ==
    IF j + 2 <= Len(s) /\ SubSeq(s, j, j + 2) = <<"v", "b", "s">>
    THEN LET e == RunEnd(s, j + 3, {"_"} \cup Whitespace) IN
         IF e + 1 <= Len(s) /\ s[e] = "-" /\ s[e + 1] \in NumChars THEN e
         ELSE IF e <= Len(s) /\ s[e] \in NumChars THEN e
         ELSE 0
    ELSE 0

\* re.search: the match at the least index, 0 when there is none
RECURSIVE l_search(_, _)
l_search(s, j) ==
    IF j > Len(s) THEN 0
    ELSE IF l_match_at(s, j) THEN j
    ELSE l_search(s, j + 1)

RECURSIVE vbs_search(_, _)
vbs_search(s, j) ==
    IF j > Len(s) THEN 0
    ELSE IF vbs_group_start(s, j) # 0 THEN j
    ELSE vbs_search(s, j + 1)

\* l_match.group(1)
l_group(s, j) == SubSeq(s, j, RunEnd(s, j, NumChars) - 1)

\* vbs_match.group(1)
vbs_group(s, j) ==
    LET g == vbs_group_start(s, j)
        d == IF s[g] = "-" THEN g + 1 ELSE g
    IN  SubSeq(s, g, RunEnd(s, d, NumChars) - 1)

parse_parameters_from_filename(filename) ==
    LET filename_lower == Lower(filename)
        l_match == l_search(filename_lower, 1)
        vbs_match == vbs_search(filename_lower, 1)
        l_value == IF l_match # 0 THEN l_group(filename_lower, l_match) ELSE None
        vbs_value == IF vbs_match # 0 THEN vbs_group(filename_lower, vbs_match)
                     ELSE None
    IN  [l_value |-> l_value, vbs_value |-> vbs_value,
         success |-> (l_value # None \/ vbs_value # None)]

(***************************************************************************)
(* The inputs of the model                                                  *)
(***************************************************************************)
\* all sequences of at most n elements of S
SeqsUpTo(S, n) == UNION {[1..m -> S] : m \in 0..n}

\* the concatenation of a sequence of sequences
RECURSIVE Flatten(_)
Flatten(ss) == IF ss = <<>> THEN <<>> ELSE Head(ss) \o Flatten(Tail(ss))

\* the sidebar's defaults: Vbs "0.1", W "1" (its input is disabled), L "10"
DefaultVbs == <<"0", ".", "1">>
DefaultW == <<"1">>
DefaultL == <<"1", "0">>

\* the lines the files of SpecConvert are made of:
\* x,y    1.5,2    7 (one field)   and a line of one space
MarkerLine == <<"x", ",", "y">>
DataLine == <<"1", ".", "5", ",", "2">>
OneFieldLine == <<"7">>
BlankLine == <<" ">>
SampleLines == {MarkerLine, DataLine, OneFieldLine, BlankLine}

\* the day of the run and the arguments, for SpecConvert
HeaderCases ==
    { [now |-> [year |-> 2026, month |-> 1, day |-> 6],
       vbs |-> DefaultVbs, w |-> DefaultW, l |-> DefaultL],
      [now |-> [year |-> 2009, month |-> 11, day |-> 30],
       vbs |-> <<"-", "1", ".", "8">>, w |-> DefaultW, l |-> <<"0", ".", "5">>] }

\* the pieces the probed line of SpecLine is made of
LinePieces ==
    { <<"x">>, <<"X">>, <<"\"", "x", "\"">>, <<"'", "x", "'">>,
      <<"'", " ", "x", "'">>,
      <<"y">>, <<",", "y">>, <<",", "\"", "y", "\"">>, <<",", "'", "y", "'">>,
      <<",">>, <<",", "1">>, <<"1">>, <<"'", "1", "'">>,
      <<" ">>, <<"\"">> }

ProbeLines == {Flatten(ps) : ps \in SeqsUpTo(LinePieces, MaxPieces)}

\* main() is not running
MainIdle ==
    /\ uploaded_files = <<>>
    /\ force_manual = FALSE
    /\ l_manual = DefaultL
    /\ vbs_manual = DefaultVbs
    /\ w_manual = DefaultW
    /\ l_parsed = None
    /\ vbs_parsed = None
    /\ parse_success = FALSE
    /\ file_params = <<>>
    /\ converted_files_txt = <<>>
    /\ converted_files_mea = <<>>
    /\ errors = <<>>
    /\ k = 1

\* the entry of convert_csv_to_txt
ConvEntry ==
    /\ pc = "header"
    /\ output_lines = <<>>
    /\ curve_index = 0
    /\ pos = 1
    /\ result = None

\* one call on a file of at most MaxLines sample lines
InitConvert ==
    /\ lines \in SeqsUpTo(SampleLines, MaxLines)
    /\ \E h \in HeaderCases :
          now = h.now /\ vbs = h.vbs /\ w = h.w /\ l = h.l
    /\ ConvEntry
    /\ MainIdle

\* one call on a file of a probed line with at most MaxAround boundary lines
\* before and after it
InitLine ==
    /\ \E n \in 0..MaxAround, probe \in ProbeLines :
          \E m \in 0..(MaxAround - n) :
             lines = [j \in 1..n |-> MarkerLine] \o <<probe>>
                        \o [j \in 1..m |-> MarkerLine]
    /\ now = [year |-> 2026, month |-> 1, day |-> 6]
    /\ vbs = DefaultVbs /\ w = DefaultW /\ l = DefaultL
    /\ ConvEntry
    /\ MainIdle

(***************************************************************************)
(* The steps of convert_csv_to_txt                                          *)
(***************************************************************************)
\* output_lines gets the three header lines; curve_index = 0
EmitHeader ==
    /\ pc = "header"
    /\ output_lines' = output_lines \o header_lines(now, vbs, w, l)
    /\ curve_index' = 0
    /\ pos' = 1
    /\ pc' = "loop"
    /\ UNCHANGED <<lines, vbs, w, l, now, result>>
    /\ UNCHANGED mainVars

\* one turn of `for line in lines`
LoopTurn ==
    /\ output_lines' = output_lines \o line_output(lines[pos], curve_index)
    /\ curve_index' = line_index(lines[pos], curve_index)
    /\ pos' = pos + 1
    /\ UNCHANGED <<pc, lines, vbs, w, l, now, result>>
    /\ UNCHANGED mainVars

\* `if not line: continue`
SkipBlank ==
    /\ pc = "loop"
    /\ pos <= Len(lines)
    /\ Strip(lines[pos]) = <<>>
    /\ LoopTurn

\* a boundary marker: the curve line is appended and the counter moves
EmitCurve ==
    /\ pc = "loop"
    /\ pos <= Len(lines)
    /\ Strip(lines[pos]) # <<>>
    /\ is_marker(Strip(lines[pos]))
    /\ LoopTurn

\* a data row: formatted, or dropped
FormatRow ==
    /\ pc = "loop"
    /\ pos <= Len(lines)
    /\ Strip(lines[pos]) # <<>>
    /\ ~is_marker(Strip(lines[pos]))
    /\ LoopTurn

\* return "\n".join(output_lines)
Return ==
    /\ pc = "loop"
    /\ pos > Len(lines)
    /\ result' = Join(output_lines)
    /\ pc' = "done"
    /\ UNCHANGED <<lines, vbs, w, l, now, output_lines, curve_index, pos>>
    /\ UNCHANGED mainVars

NextConvert == EmitHeader \/ SkipBlank \/ EmitCurve \/ FormatRow \/ Return

SpecConvert == InitConvert /\ [][NextConvert]_vars

SpecLine == InitLine /\ [][NextConvert]_vars

(***************************************************************************)
(* main(): the parameters of every uploaded file                            *)
(***************************************************************************)
\* a variant of forced_params that keeps an L parsed from the filename
forced_params_parsed_l(filename) ==
    LET p == parse_parameters_from_filename(filename) IN
    [filename |-> filename,
     l |-> IF p.l_value # None THEN p.l_value ELSE l_manual,
     vbs |-> vbs_manual, w |-> w_manual,
     status |-> [kind |-> "manual_forced", args |-> <<>>],
     status_color |-> "blue"]

\* the branch `if force_manual`
forced_params(filename) ==
    [filename |-> filename,
     l |-> l_manual, vbs |-> vbs_manual, w |-> w_manual,
     status |-> [kind |-> "manual_forced", args |-> <<>>],
     status_color |-> "blue"]

\* a variant of auto_params that takes a parsed Vbs only beside a parsed L
auto_params_coupled(filename) ==
    LET p == parse_parameters_from_filename(filename)
        both == p.l_value # None /\ p.vbs_value # None
        l_value == IF p.l_value # None THEN p.l_value ELSE l_manual
        vbs_value == IF both THEN p.vbs_value ELSE vbs_manual
        status ==
            IF p.success
            THEN IF both
                 THEN [kind |-> "parsed_l_vbs", args |-> <<p.l_value, p.vbs_value>>]
                 ELSE IF p.l_value # None
                 THEN [kind |-> "parsed_l_default_vbs", args |-> <<p.l_value>>]
                 ELSE [kind |-> "parsed_vbs_default_l", args |-> <<p.vbs_value>>]
            ELSE [kind |-> "parse_failed_defaults", args |-> <<>>]
    IN  [filename |-> filename,
         l |-> l_value, vbs |-> vbs_value, w |-> w_manual,
         status |-> status,
         status_color |-> IF p.success THEN "green" ELSE "orange"]

\* the branch `else`: the filename is parsed
auto_params(filename) ==
    LET p == parse_parameters_from_filename(filename)
        l_value == IF p.l_value # None THEN p.l_value ELSE l_manual
        vbs_value == IF p.vbs_value # None THEN p.vbs_value ELSE vbs_manual
        status ==
            IF p.success
            THEN IF p.l_value # None /\ p.vbs_value # None
                 THEN [kind |-> "parsed_l_vbs", args |-> <<p.l_value, p.vbs_value>>]
                 ELSE IF p.l_value # None
                 THEN [kind |-> "parsed_l_default_vbs", args |-> <<p.l_value>>]
                 ELSE [kind |-> "parsed_vbs_default_l", args |-> <<p.vbs_value>>]
            ELSE [kind |-> "parse_failed_defaults", args |-> <<>>]
    IN  [filename |-> filename,
         l |-> l_value, vbs |-> vbs_value, w |-> w_manual,
         status |-> status,
         status_color |-> IF p.success THEN "green" ELSE "orange"]

\* `if not uploaded_files: return`
NoFiles ==
    /\ pc = "params"
    /\ uploaded_files = <<>>
    /\ pc' = "done"
    /\ UNCHANGED <<lines, vbs, w, l, now, output_lines, curve_index, pos, result>>
    /\ UNCHANGED mainVars

\* one turn of `for uploaded_file in uploaded_files`, force_manual set
ResolveForced ==
    /\ pc = "params"
    /\ k <= Len(uploaded_files)
    /\ force_manual
    /\ file_params' = Append(file_params, forced_params(uploaded_files[k].name))
    /\ k' = k + 1
    /\ UNCHANGED <<l_parsed, vbs_parsed, parse_success>>
    /\ UNCHANGED <<uploaded_files, force_manual, l_manual, vbs_manual, w_manual,
                   converted_files_txt, converted_files_mea, errors>>
    /\ UNCHANGED convVars

\* one turn of the same loop, force_manual not set
ResolveAuto ==
    /\ pc = "params"
    /\ k <= Len(uploaded_files)
    /\ ~force_manual
    /\ LET p == parse_parameters_from_filename(uploaded_files[k].name) IN
          /\ l_parsed' = p.l_value
          /\ vbs_parsed' = p.vbs_value
          /\ parse_success' = p.success
    /\ file_params' = Append(file_params, auto_params(uploaded_files[k].name))
    /\ k' = k + 1
    /\ UNCHANGED <<uploaded_files, force_manual, l_manual, vbs_manual, w_manual,
                   converted_files_txt, converted_files_mea, errors>>
    /\ UNCHANGED convVars

\* the table is shown; the page waits for the button
ShowTable ==
    /\ pc = "params"
    /\ uploaded_files # <<>>
    /\ k > Len(uploaded_files)
    /\ pc' = "button"
    /\ UNCHANGED <<lines, vbs, w, l, now, output_lines, curve_index, pos, result>>
    /\ UNCHANGED mainVars

(***************************************************************************)
(* main(): the batch                                                        *)
(***************************************************************************)
\* Path(name).stem
RECURSIVE LastDot(_, _)
LastDot(name, j) ==
    IF j = 0 THEN 0 ELSE IF name[j] = "." THEN j ELSE LastDot(name, j - 1)

Stem(name) ==
    LET d == LastDot(name, Len(name)) IN
    IF 1 < d /\ d < Len(name) THEN SubSeq(name, 1, d - 1) ELSE name

output_filename_txt(name) ==
    Stem(name) \o <<"_","c","o","n","v","e","r","t","e","d",".","t","x","t">>

output_filename_mea(name) ==
    Stem(name) \o <<"_","c","o","n","v","e","r","t","e","d",".","m","e","a">>

\* d[key] = value
DictSet(d, key, value) ==
    [x \in (DOMAIN d) \cup {key} |-> IF x = key THEN value ELSE d[x]]

\* next(f for f in uploaded_files if f.name == filename), as an index
first_named(filename) ==
    CHOOSE n \in 1..Len(uploaded_files) :
        /\ uploaded_files[n].name = filename
        /\ \A m \in 1..(n - 1) : uploaded_files[m].name # filename

\* uploaded_file.read(): what is left after the stream's position
read_content(f) == IF f.offset = 0 THEN f.data ELSE <<>>

\* the button is pressed
ClickConvert ==
    /\ pc = "button"
    /\ converted_files_txt' = <<>>
    /\ converted_files_mea' = <<>>
    /\ errors' = <<>>
    /\ k' = 1
    /\ pc' = "convert"
    /\ UNCHANGED <<uploaded_files, force_manual, l_manual, vbs_manual, w_manual,
                   l_parsed, vbs_parsed, parse_success, file_params>>
    /\ UNCHANGED <<lines, vbs, w, l, now, output_lines, curve_index, pos, result>>

\* one turn of `for file_param in file_params`: the try block runs through
ConvertFile ==
    /\ pc = "convert"
    /\ k <= Len(file_params)
    /\ LET n == first_named(file_params[k].filename)
           uploaded_file == uploaded_files[n]
           file_content == read_content(uploaded_file)
           txt_content == convert_csv_to_txt(file_content, now,
                              file_params[k].vbs, file_params[k].w,
                              file_params[k].l)
       IN  /\ ~uploaded_file.fault
           /\ uploaded_files' = [uploaded_files EXCEPT ![n].offset = 1]
           /\ converted_files_txt' =
                 DictSet(converted_files_txt,
                         output_filename_txt(uploaded_file.name), txt_content)
           /\ converted_files_mea' =
                 DictSet(converted_files_mea,
                         output_filename_mea(uploaded_file.name), txt_content)
    /\ k' = k + 1
    /\ UNCHANGED <<force_manual, l_manual, vbs_manual, w_manual,
                   l_parsed, vbs_parsed, parse_success, file_params, errors>>
    /\ UNCHANGED convVars

\* the same turn, `uploaded_file.read()` raising: the except block
ConvertRaises ==
    /\ pc = "convert"
    /\ k <= Len(file_params)
    /\ LET n == first_named(file_params[k].filename)
           uploaded_file == uploaded_files[n]
       IN  /\ uploaded_file.fault
           /\ errors' = Append(errors, [file |-> uploaded_file.name,
                                        error |-> "read failed"])
    /\ k' = k + 1
    /\ UNCHANGED <<uploaded_files, force_manual, l_manual, vbs_manual, w_manual,
                   l_parsed, vbs_parsed, parse_success, file_params,
                   converted_files_txt, converted_files_mea>>
    /\ UNCHANGED convVars

\* the loop is over: errors and results are shown
ShowResults ==
    /\ pc = "convert"
    /\ k > Len(file_params)
    /\ pc' = "done"
    /\ UNCHANGED <<lines, vbs, w, l, now, output_lines, curve_index, pos, result>>
    /\ UNCHANGED mainVars

(***************************************************************************)
(* The runs of main()                                                       *)
(***************************************************************************)
\* convert_csv_to_txt is not stepped through: main() calls it as a whole
ConvIdle ==
    /\ lines = <<>>
    /\ vbs = DefaultVbs /\ w = DefaultW /\ l = DefaultL
    /\ now = [year |-> 2026, month |-> 1, day |-> 6]
    /\ output_lines = <<>>
    /\ curve_index = 0
    /\ pos = 1
    /\ result = None

MainEntry ==
    /\ pc = "params"
    /\ l_parsed = None
    /\ vbs_parsed = None
    /\ parse_success = FALSE
    /\ file_params = <<>>
    /\ converted_files_txt = <<>>
    /\ converted_files_mea = <<>>
    /\ errors = <<>>
    /\ k = 1

\* the file uploader takes csv files only
CsvSuffix == <<".", "c", "s", "v">>

\* the segments the filenames of SpecParams are made of
NameSegs ==
    { <<"5">>, <<".">>, <<"L">>, <<"v", "b", "s">>, <<"V", "B", "S">>,
      <<"-">>, <<"_">>, <<"c">> }

Filenames == {Flatten(ss) \o CsvSuffix : ss \in SeqsUpTo(NameSegs, MaxSegs)}

\* what the user typed for L and Vbs; W is fixed
ManualCases ==
    { [l |-> DefaultL, vbs |-> DefaultVbs],
      [l |-> <<"2">>, vbs |-> <<"-", "3">>] }

\* one upload, of any of the filenames
InitParams ==
    /\ \E fn \in Filenames :
          uploaded_files = <<[name |-> fn, data |-> <<>>, offset |-> 0,
                              fault |-> FALSE]>>
    /\ force_manual \in BOOLEAN
    /\ \E m \in ManualCases : l_manual = m.l /\ vbs_manual = m.vbs
    /\ w_manual = DefaultW
    /\ MainEntry
    /\ ConvIdle

NextParams == ResolveForced \/ ResolveAuto \/ ShowTable

SpecParams == InitParams /\ [][NextParams]_vars

\* the uploads of SpecBatch: a.csv and 5L.csv, with two contents, and
\* whether reading the upload raises
BatchNames ==
    { <<"a", ".", "c", "s", "v">>, <<"5", "L", ".", "c", "s", "v">> }

BatchData == { <<MarkerLine, DataLine>>, <<DataLine>> }

BatchFiles ==
    [name : BatchNames, data : BatchData, offset : {0}, fault : BOOLEAN]

InitBatch ==
    /\ uploaded_files \in SeqsUpTo(BatchFiles, MaxFiles)
    /\ force_manual \in BOOLEAN
    /\ l_manual = DefaultL /\ vbs_manual = DefaultVbs /\ w_manual = DefaultW
    /\ MainEntry
    /\ ConvIdle

NextBatch ==
    \/ NoFiles \/ ResolveForced \/ ResolveAuto \/ ShowTable
    \/ ClickConvert \/ ConvertFile \/ ConvertRaises \/ ShowResults

SpecBatch == InitBatch /\ [][NextBatch]_vars

(***************************************************************************)
(* Properties of convert_csv_to_txt                                         *)
(***************************************************************************)
IsCurveLine(o) == Len(o) >= 5 /\ SubSeq(o, 1, 5) = <<"c", "u", "r", "v", "e">>

HasComma(s) == \E j \in 1..Len(s) : s[j] = ","

Last(s) == s[Len(s)]

\* the labels, as the specification lists them
C1Labels ==
    << <<"1",".","8">>, <<"1",".","3","5">>, <<"0",".","9">>,
       <<"0",".","4","5">>, <<"0">> >>

\* the curve line of the boundary marker number n, counted from 0
C1CurveText(n) ==
    <<"c","u","r","v","e"," ","{"," ">> \o C1Labels[(n % 5) + 1] \o <<" ","}">>

C1Count(j, ln) == Cardinality({m \in 1..(j - 1) : lines[m] = ln})

\* C1: the boundary marker number n of a file (n = 0, 1, ...) gives the line
\* curve { label } with the label number n mod 5 of 1.8, 1.35, 0.9, 0.45, 0,
\* in input order, and only boundary markers move the counter: after any
\* number of lines the counter is the number of boundary markers read, the
\* curve lines written are one per marker, each with its label, and the
\* output holds the header, these and one line per data row, nothing else.
C1_LabelsCycle ==
    pc \in {"loop", "done"} =>
        LET curves == SelectSeq(output_lines, IsCurveLine) IN
        /\ curve_index = C1Count(pos, MarkerLine)
        /\ Len(curves) = curve_index
        /\ \A n \in 1..Len(curves) : curves[n] = C1CurveText(n - 1)
        /\ Len(output_lines) = 3 + curve_index + C1Count(pos, DataLine)

\* seven boundary markers: 1.8, 1.35, 0.9, 0.45, 0, 1.8, 1.35
C1_Witness ==
    /\ pc = "done"
    /\ lines = [j \in 1..7 |-> MarkerLine]
    /\ Len(output_lines) = 10
    /\ SubSeq(output_lines, 4, 10) =
          << <<"c","u","r","v","e"," ","{"," ","1",".","8"," ","}">>,
             <<"c","u","r","v","e"," ","{"," ","1",".","3","5"," ","}">>,
             <<"c","u","r","v","e"," ","{"," ","0",".","9"," ","}">>,
             <<"c","u","r","v","e"," ","{"," ","0",".","4","5"," ","}">>,
             <<"c","u","r","v","e"," ","{"," ","0"," ","}">>,
             <<"c","u","r","v","e"," ","{"," ","1",".","8"," ","}">>,
             <<"c","u","r","v","e"," ","{"," ","1",".","3","5"," ","}">> >>

\* the date of the two days of SpecConvert, written out
C4Date ==
    IF now.year = 2026 THEN <<"1","/","6","/","2","6">>
    ELSE <<"1","1","/","3","0","/","0","9">>

C4Condition ==
    <<"c","o","n","d","i","t","i","o","n","{","d","a","t","e","=">> \o C4Date
    \o <<",","i","n","s","t","r","u","m","e","n","t","=","p","s","e","u","d","o",
         ".","m","e","t","e","r",",","m","o","d","e","=","f","o","r","w","a","r",
         "d",",","t","y","p","e","=","n","m","o","s","}">>

C4Page ==
    <<"P","a","g","e"," ","(","n","a","m","e","=","I","d","s","_","V","d","s",
      "_","V","g","s",",","x","=","V","d","s",",","p","=","V","g","s",",","y",
      "=","I","d","s",")","{","V","b","s","=">>
    \o vbs \o <<",","W","=">> \o w \o <<",","L","=">> \o l
    \o <<",","T","=","2","5","}">>

C4Text == C4Condition \o <<"\n", "\n">> \o C4Page

\* C4: for every input the output starts with the condition line, an empty
\* line and the Page line with Vbs, W and L as given; nothing is written
\* before them, the loop never changes them, and the returned text starts
\* with them, each on a line of its own.
C4_HeaderFirst ==
    /\ pc = "header" => output_lines = <<>>
    /\ pc \in {"loop", "done"} =>
          /\ Len(output_lines) >= 3
          /\ output_lines[1] = C4Condition
          /\ output_lines[2] = <<>>
          /\ output_lines[3] = C4Page
          /\ \A j \in 4..Len(output_lines) : output_lines[j] # <<>>
    /\ pc = "done" =>
          /\ Len(result) >= Len(C4Text)
          /\ SubSeq(result, 1, Len(C4Text)) = C4Text
          /\ Len(result) > Len(C4Text) => result[Len(C4Text) + 1] = "\n"

\* a file whose every line is dropped: the header is the whole output
C4_Witness ==
    /\ pc = "done"
    /\ Len(lines) = 3
    /\ \A j \in 1..3 : lines[j] \in {OneFieldLine, BlankLine}
    /\ result = C4Text

\* the lines read so far, without those that hold no comma
C7Kept == SelectSeq(SubSeq(lines, 1, pos - 1), HasComma)

\* C7: a line that holds no comma (one field, or blank) writes nothing and
\* leaves the counter and the output as they were, and the lines after it
\* are handled as if it had not been there: the output is at every point
\* the output of the lines read so far without the comma-less ones.
C7_OneFieldDropped ==
    /\ [][(pc = "loop" /\ pos <= Len(lines) /\ ~HasComma(lines[pos])) =>
             (output_lines' = output_lines /\ curve_index' = curve_index)]_vars
    /\ [](pc \in {"loop", "done"} =>
             /\ output_lines =
                   loop_from(C7Kept, 1, header_lines(now, vbs, w, l), 0)
             /\ curve_index = Len(SelectSeq(output_lines, IsCurveLine)))

\* the one-field line "x" between the header and a boundary marker
C7_Witness ==
    /\ pc = "done"
    /\ lines = << <<"\"", "x", "\"">>, MarkerLine >>
    /\ Len(output_lines) = 4
    /\ output_lines[4] = C1CurveText(0)
    /\ curve_index = 1

\* a field trimmed, stripped of quotes and lower-cased
C10Field(f) == Lower(StripChar(StripChar(Strip(f), "\""), "'"))

C10Forms ==
    { <<"\"","x","\"",",","\"","y","\"">>, <<"x",",","y">>,
      <<"'","x","'",",","'","y","'">> }

C10Text(line) == Lower(SelectSeq(line, LAMBDA c : c # " ")) \in C10Forms

\* the claim as written: exactly two fields
C10MarkerAsClaimed(line) ==
    LET row == CsvReader(line) IN
    Len(row) = 2 /\ C10Field(row[1]) = <<"x">> /\ C10Field(row[2]) = <<"y">>

\* the claim as amended: two fields or more, or the text form
C10MarkerAmended(line) ==
    LET row == CsvReader(line) IN
    \/ Len(row) >= 2 /\ C10Field(row[1]) = <<"x">> /\ C10Field(row[2]) = <<"y">>
    \/ C10Text(line)

\* what a turn of the loop does with a line that is not blank, given
\* whether the line is a boundary marker
C10Turn(marker) ==
    IF marker
    THEN /\ output_lines' = Append(output_lines, C1CurveText(curve_index))
         /\ curve_index' = curve_index + 1
    ELSE /\ output_lines' = output_lines \o data_lines(Strip(lines[pos]))
         /\ curve_index' = curve_index

C10Reading == pc = "loop" /\ pos <= Len(lines) /\ Strip(lines[pos]) # <<>>

C8Values(line) ==
    LET row == CsvReader(line)
        parts == Split(line, ",")
    IN  IF Len(row) >= 2 THEN <<row[1], row[2]>>
        ELSE IF Len(parts) >= 2 THEN <<parts[1], parts[2]>>
        ELSE <<>>

\* whitespace and quote characters, single or double, trimmed from the ends
C8Trim(s) == RStripSet(LStripSet(s, {" ", "\"", "'"}), {" ", "\"", "'"})

\* C8: a data row (a line that is not blank and no boundary marker) with two values x and y writes one line: x, trimmed of
\* whitespace and of quote characters (single or double), left-justified
\* to 20 characters, then y, trimmed the same way.
C8_QuotesTrimmed ==
    [][(/\ pc = "loop" /\ pos <= Len(lines)
        /\ Strip(lines[pos]) # <<>>
        /\ ~C10MarkerAmended(Strip(lines[pos]))
        /\ C8Values(Strip(lines[pos])) # <<>>) =>
          LET v == C8Values(Strip(lines[pos])) IN
          output_lines' =
              Append(output_lines, Ljust(C8Trim(v[1]), 20) \o C8Trim(v[2]))]_vars

(***************************************************************************)
(* Properties of main() and of parse_parameters_from_filename               *)
(***************************************************************************)
\* C2: with force_manual set, the parameters recorded for every file,
\* whatever its filename holds, are the manual L, Vbs and W, under the
\* forced-manual label.
C2_ForcedManual ==
    force_manual =>
        \A n \in 1..Len(file_params) :
            /\ file_params[n].filename = uploaded_files[n].name
            /\ file_params[n].l = l_manual
            /\ file_params[n].vbs = vbs_manual
            /\ file_params[n].w = w_manual
            /\ file_params[n].status = [kind |-> "manual_forced", args |-> <<>>]

\* 5Lvbs5.csv, from which L and Vbs parse, with L = 2 and Vbs = -3 typed
C2_Witness ==
    /\ force_manual
    /\ Len(file_params) = 1
    /\ uploaded_files[1].name = <<"5", "L", "v", "b", "s", "5">> \o CsvSuffix
    /\ file_params[1].l = <<"2">>
    /\ file_params[1].vbs = <<"-", "3">>
    /\ file_params[1].w = <<"1">>

\* C3: with force_manual not set, the L recorded for a file is the parsed
\* L when one was found and the manual L otherwise, the Vbs likewise and
\* on its own, the W is the manual W, and the label is the one of the four
\* outcomes (both parsed, only L, only Vbs, neither) that agrees with what
\* was parsed.
C3_ParsedOrManual ==
    (~force_manual /\ file_params # <<>>) =>
        LET fp == Last(file_params) IN
        /\ fp.l = IF l_parsed # None THEN l_parsed ELSE l_manual
        /\ fp.vbs = IF vbs_parsed # None THEN vbs_parsed ELSE vbs_manual
        /\ fp.w = w_manual
        /\ parse_success = (l_parsed # None \/ vbs_parsed # None)
        /\ fp.status =
              CASE l_parsed # None /\ vbs_parsed # None ->
                      [kind |-> "parsed_l_vbs", args |-> <<l_parsed, vbs_parsed>>]
                [] l_parsed # None /\ vbs_parsed = None ->
                      [kind |-> "parsed_l_default_vbs", args |-> <<l_parsed>>]
                [] l_parsed = None /\ vbs_parsed # None ->
                      [kind |-> "parsed_vbs_default_l", args |-> <<vbs_parsed>>]
                [] l_parsed = None /\ vbs_parsed = None ->
                      [kind |-> "parse_failed_defaults", args |-> <<>>]

\* only a Vbs parses from vbs-5.csv: Vbs is the parsed one, L the typed one
C3_Witness ==
    /\ ~force_manual
    /\ Len(file_params) = 1
    /\ uploaded_files[1].name = <<"v", "b", "s", "-", "5">> \o CsvSuffix
    /\ l_parsed = None
    /\ vbs_parsed # None
    /\ file_params[1].l = <<"2">>
    /\ file_params[1].vbs = vbs_parsed
    /\ file_params[1].status.kind = "parsed_vbs_default_l"

C9Numbers == { <<"5">>, <<"5", ".", "5">> }

\* C9: a filename with a <number>L token and a vbs<sign?><number> token
\* gives exactly the two numbers as L and Vbs, the sign kept, whatever the
\* case of the letters and the text around: here the names
\* <number>L[_]vbs[-]<number>.csv.
C9_NumericSubstrings ==
    \A n1 \in C9Numbers, n2 \in C9Numbers, sg \in {<<>>, <<"-">>},
       sep \in {<<>>, <<"_">>}, tok \in {<<"v", "b", "s">>, <<"V", "B", "S">>} :
        (/\ ~force_manual
         /\ file_params # <<>>
         /\ uploaded_files[1].name =
               n1 \o <<"L">> \o sep \o tok \o sg \o n2 \o CsvSuffix)
        => (l_parsed = n1 /\ vbs_parsed = sg \o n2)

\* the uploads whose read raises
C5Faulty == {n \in 1..Len(uploaded_files) : uploaded_files[n].fault}

C5Named(name) == {n \in 1..Len(uploaded_files) : uploaded_files[n].name = name}

C5Errors(name) == {e \in 1..Len(errors) : errors[e].file = name}

\* C5: an exception raised for one file is recorded as one error message
\* for that file and does not stop the loop: every other file of the batch
\* is still read and converted, and each file that converts has its result
\* stored under <stem>_converted.txt and <stem>_converted.mea with the same
\* content.  At the end of the loop: a failing file that is read has a
\* message, no name has more messages than failing uploads, every turn of
\* the loop has run, and once a message is recorded every file that does
\* not fail has been read and stored.
C5_FailureIsolated ==
    (pc = "done" /\ uploaded_files # <<>>) =>
        /\ k = Len(uploaded_files) + 1
        /\ \A n \in C5Faulty :
              LET name == uploaded_files[n].name IN
              /\ (\A m \in 1..(n - 1) : uploaded_files[m].name # name)
                    => C5Errors(name) # {}
              /\ Cardinality(C5Errors(name)) <=
                    Cardinality(C5Named(name) \cap C5Faulty)
        /\ \A n \in (1..Len(uploaded_files)) \ C5Faulty :
              LET name == uploaded_files[n].name IN
              /\ C5Errors(name) = {}
              /\ errors # <<>> => uploaded_files[n].offset = 1
              /\ uploaded_files[n].offset = 1 =>
                    /\ output_filename_txt(name) \in DOMAIN converted_files_txt
                    /\ output_filename_mea(name) \in DOMAIN converted_files_mea
                    /\ converted_files_txt[output_filename_txt(name)] =
                          converted_files_mea[output_filename_mea(name)]

\* C6: in every batch, two uploads of one name included, the result
\* recorded for a file is the conversion of that file's own bytes with
\* that file's own parameters, whatever the other files of the batch are.
C6_OwnBytes ==
    (pc = "done" /\ uploaded_files # <<>>) =>
        \A n \in 1..Len(uploaded_files) :
            ~uploaded_files[n].fault =>
                LET key == output_filename_txt(uploaded_files[n].name) IN
                /\ key \in DOMAIN converted_files_txt
                /\ converted_files_txt[key] =
                      convert_csv_to_txt(uploaded_files[n].data, now,
                          file_params[n].vbs, file_params[n].w, file_params[n].l)

====
